---- MODULE Spec2Model ----
(***************************************************************************)
(* A model of the bag-of-words retrieval toolkit:                          *)
(*   data_structures.py  bow_document, bow_document_collection             *)
(*   ir_models.py        BM25, JM_LM, cosine_similarity,                   *)
(*                       vector_space_model, w5, My_PRM                    *)
(*   ir_tools.py         term_specificity, score_normalisation             *)
(*                                                                         *)
(* Python objects live in a heap (objs); a dict is a function whose        *)
(* DOMAIN is its key set, and a dict whose iteration order is observable   *)
(* (docs, the score mappings) is a sequence of <<key, value>> pairs in     *)
(* insertion order.  Real numbers are exact rationals <<num, den>>;        *)
(* log10 is a table of 1000 * log10(n).                                    *)
(***************************************************************************)
EXTENDS Integers, Sequences, FiniteSets, TLC

VARIABLES objs, docs, term_doc_count, term_frequency, added, add_term_ok, query, result

vars == <<objs, docs, term_doc_count, term_frequency, added, add_term_ok, query, result>>
coll == <<objs, docs, term_doc_count, term_frequency>>

---------------------------------------------------------------------------
(* Bounds of the model and the input alphabets.                            *)

\* longest document built (add_term calls on one object)
MaxLen == 3
\* add_doc calls on the collection
MaxAdds == 2

\* the bow_document objects the caller creates, document ids, terms
Refs == {1, 2}
Ids == {"1", "2"}
Terms == {"cat", "dog"}

---------------------------------------------------------------------------
(* dict helpers                                                            *)

EmptyDict == [k \in {} |-> 0]

\* dict.get(key, default)
Get(d, k, default) == IF k \in DOMAIN d THEN d[k] ELSE default

\* d[k] = v
Put(d, k, v) == [x \in (DOMAIN d) \cup {k} |-> IF x = k THEN v ELSE d[x]]

RECURSIVE SumOver(_, _)
SumOver(f, S) ==
    IF S = {} THEN 0
    ELSE LET x == CHOOSE y \in S : TRUE IN f[x] + SumOver(f, S \ {x})

\* sum(d.values())
SumValues(d) == SumOver(d, DOMAIN d)

\* keys of an insertion-ordered dict, in order, and as a set
Keys(od) == [i \in 1..Len(od) |-> od[i][1]]
KeySet(od) == {od[i][1] : i \in 1..Len(od)}

\* od[k] for a key that is present
Lookup(od, k) == (od[CHOOSE i \in 1..Len(od) : od[i][1] = k])[2]

\* od[k] = v on a dict that keeps one entry per assignment
OrderedPut_Append(od, k, v) == Append(od, <<k, v>>)

\* od[k] = v : an existing key keeps its position, a new key goes last
OrderedPut(od, k, v) ==
    IF k \in KeySet(od)
    THEN [i \in 1..Len(od) |-> IF od[i][1] = k THEN <<k, v>> ELSE od[i]]
    ELSE Append(od, <<k, v>>)

---------------------------------------------------------------------------
(* Numbers.  A Python float is modelled by the exact rational it stands    *)
(* for: <<n, d>> with d > 0 and gcd(n, d) = 1, so equal numbers are equal  *)
(* values.                                                                 *)

Abs(n) == IF n < 0 THEN -n ELSE n

RECURSIVE GCD(_, _)
GCD(a, b) == IF b = 0 THEN a ELSE GCD(b, a % b)

Rat(n, d) ==
    LET g == GCD(Abs(n), Abs(d))
    IN IF d < 0 THEN <<(-n) \div g, (-d) \div g>> ELSE <<n \div g, d \div g>>

Zero == <<0, 1>>
One == <<1, 1>>
RInt(n) == <<n, 1>>

\* x + y through the least common denominator; the common factor h of the
\* numerators is taken out first, which keeps the products small
RAdd(x, y) ==
    LET g == GCD(x[2], y[2])
        h == GCD(Abs(x[1]), Abs(y[1]))
    IN IF h = 0 THEN Zero
       ELSE LET n == (x[1] \div h) * (y[2] \div g) + (y[1] \div h) * (x[2] \div g)
                d == (x[2] \div g) * y[2]
                hd == GCD(h, d)
                r == Rat(n, d \div hd)
            IN <<(h \div hd) * r[1], r[2]>>
RNeg(x) == <<-x[1], x[2]>>
RSub(x, y) == RAdd(x, RNeg(y))
\* cross-cancel before multiplying
RMul(x, y) ==
    LET g1 == GCD(Abs(x[1]), y[2])
        g2 == GCD(Abs(y[1]), x[2])
    IN IF x[1] = 0 \/ y[1] = 0 THEN Zero
       ELSE <<(x[1] \div g1) * (y[1] \div g2), (x[2] \div g2) * (y[2] \div g1)>>
\* y # 0
RInv(y) == IF y[1] < 0 THEN <<-y[2], -y[1]>> ELSE <<y[2], y[1]>>
RDiv(x, y) == RMul(x, RInv(y))
RSign(x) == IF x[1] > 0 THEN 1 ELSE IF x[1] < 0 THEN -1 ELSE 0
\* a/b < c/d for b, d > 0, by the integer parts and then the remainders
\* (no product is formed)
RECURSIVE FracLess(_, _, _, _)
FracLess(a, b, c, d) ==
    IF a \div b # c \div d THEN a \div b < c \div d
    ELSE IF c % d = 0 THEN FALSE
    ELSE IF a % b = 0 THEN TRUE
    ELSE FracLess(d, c % d, b, a % b)
RLess(x, y) == FracLess(x[1], x[2], y[1], y[2])
RAbs(x) == <<Abs(x[1]), x[2]>>

RECURSIVE RSumSeq(_, _)
RSumSeq(s, i) == IF i > Len(s) THEN Zero ELSE RAdd(s[i], RSumSeq(s, i + 1))

\* min(...) and max(...) of a non-empty sequence of numbers
RECURSIVE RMinSeq(_, _)
RMinSeq(s, i) ==
    IF i = Len(s) THEN s[i]
    ELSE LET m == RMinSeq(s, i + 1) IN IF RLess(m, s[i]) THEN m ELSE s[i]
RECURSIVE RMaxSeq(_, _)
RMaxSeq(s, i) ==
    IF i = Len(s) THEN s[i]
    ELSE LET m == RMaxSeq(s, i + 1) IN IF RLess(s[i], m) THEN m ELSE s[i]

\* 1000 * log10(n), rounded, for n = 1..13
LogTab == <<0, 301, 477, 602, 699, 778, 845, 903, 954, 1000, 1041, 1079, 1114>>

\* math.log10(x) and math.log(x, 10) for a rational x > 0 whose numerator and
\* denominator are in the table
Log10(x) == Rat(LogTab[x[1]] - LogTab[x[2]], 1000)

\* what a raising call leaves, and what a returning call returns
Raise(exc) == [status |-> exc]
Return(v) == [status |-> "ok", value |-> v]

---------------------------------------------------------------------------
(* bow_document                                                            *)

\* bow_document.__init__
bow_document(item_id) == [doc_id |-> item_id, terms |-> EmptyDict, doc_len |-> 0]

\* add_term that extends doc_len only for a new term
add_term_NewOnly(doc, term) ==
    [doc EXCEPT !.doc_len = IF term \in DOMAIN doc.terms THEN @ ELSE @ + 1,
                !.terms = IF term \in DOMAIN doc.terms
                          THEN Put(doc.terms, term, doc.terms[term] + 1)
                          ELSE Put(doc.terms, term, 1)]

\* bow_document.add_term, on the object's fields
add_term(doc, term) ==
    [doc EXCEPT !.doc_len = @ + 1,
                !.terms = IF term \in DOMAIN doc.terms
                          THEN Put(doc.terms, term, doc.terms[term] + 1)
                          ELSE Put(doc.terms, term, 1)]

\* a value as the caller assigns it: its type and the number it stands for
PyNumber(type, value) == [type |-> type, value |-> value]

\* the doc_len setter storing any int
doc_len_setter_Unchecked(doc, arg) ==
    IF arg.type # "int" THEN Raise("TypeError")
    ELSE Return([doc EXCEPT !.doc_len = arg.value[1]])

\* doc.doc_len = arg, the property setter, on the object's fields
doc_len_setter(doc, arg) ==
    IF arg.type # "int" THEN Raise("TypeError")
    ELSE IF arg.value[1] < 0 THEN Raise("ValueError")
    ELSE Return([doc EXCEPT !.doc_len = arg.value[1]])

---------------------------------------------------------------------------
(* bow_document_collection                                                 *)

\* the loop of add_doc setting a known term's count to 1 instead of adding 1
RECURSIVE IndexUpdate_Reset(_, _)
IndexUpdate_Reset(index, keys) ==
    IF keys = {} THEN index
    ELSE LET term == CHOOSE t \in keys : TRUE
         IN IndexUpdate_Reset(Put(index, term, 1), keys \ {term})

\* the loop of add_doc over the document's distinct term keys
RECURSIVE IndexUpdate(_, _)
IndexUpdate(index, keys) ==
    IF keys = {} THEN index
    ELSE LET term == CHOOSE t \in keys : TRUE
         IN IndexUpdate(IF term \in DOMAIN index
                        THEN Put(index, term, index[term] + 1)
                        ELSE Put(index, term, 1),
                        keys \ {term})

---------------------------------------------------------------------------
(* ir_tools.py                                                             *)

\* od.get(k, default) on an insertion-ordered dict
OGet(od, k, default) == IF k \in KeySet(od) THEN Lookup(od, k) ELSE default

\* the values of an insertion-ordered dict, in order
Values(od) == [i \in 1..Len(od) |-> od[i][2]]

\* an unstable sort: an item goes before the first item whose score is not
\* higher, so items of equal score come out in reverse
InsertDesc_BeforeEqual(s, x) ==
    LET lower == {j \in 1..Len(s) : ~RLess(x[2], s[j][2])}
        k == IF lower = {} THEN Len(s) + 1
             ELSE CHOOSE j \in lower : \A m \in lower : j <= m
    IN SubSeq(s, 1, k - 1) \o <<x>> \o SubSeq(s, k, Len(s))

\* sorted(items, key=lambda item: item[1], reverse=True): a stable sort, so
\* an item goes before the first item whose score is strictly lower
InsertDesc(s, x) ==
    LET lower == {j \in 1..Len(s) : RLess(s[j][2], x[2])}
        k == IF lower = {} THEN Len(s) + 1
             ELSE CHOOSE j \in lower : \A m \in lower : j <= m
    IN SubSeq(s, 1, k - 1) \o <<x>> \o SubSeq(s, k, Len(s))

RECURSIVE SortedPrefix(_, _)
SortedPrefix(items, n) ==
    IF n = 0 THEN << >> ELSE InsertDesc(SortedPrefix(items, n - 1), items[n])

\* a ranking that leaves out the items whose score is not above 0
sorted_desc_PositiveOnly(items) ==
    SelectSeq(SortedPrefix(items, Len(items)), LAMBDA item : RLess(Zero, item[2]))

sorted_desc(items) == SortedPrefix(items, Len(items))

\* score_normalisation returning 1 for every key where all scores are equal
score_normalisation_EqualOne(scores) ==
    IF Len(scores) = 0 THEN Raise("ValueError")
    ELSE LET min_score == RMinSeq(Values(scores), 1)
             max_score == RMaxSeq(Values(scores), 1)
         IN IF RSub(max_score, min_score) = Zero
            THEN Return([i \in 1..Len(scores) |-> <<scores[i][1], One>>])
            ELSE Return([i \in 1..Len(scores) |->
                           <<scores[i][1],
                             RDiv(RSub(scores[i][2], min_score),
                                  RSub(max_score, min_score))>>])

\* score_normalisation on a dict of str keys and numeric values; min() of
\* an empty dict raises ValueError
score_normalisation(scores) ==
    IF Len(scores) = 0 THEN Raise("ValueError")
    ELSE LET min_score == RMinSeq(Values(scores), 1)
             max_score == RMaxSeq(Values(scores), 1)
         IN IF RSub(max_score, min_score) = Zero
            THEN Return([i \in 1..Len(scores) |-> <<scores[i][1], Zero>>])
            ELSE Return([i \in 1..Len(scores) |->
                           <<scores[i][1],
                             RDiv(RSub(scores[i][2], min_score),
                                  RSub(max_score, min_score))>>])

\* An argument as the caller passes it: the type of the object and, for each
\* item, the types of its key and value next to the key and the value.
PyItem(key_type, key, value_type, value) ==
    [key_type |-> key_type, key |-> key, value_type |-> value_type, value |-> value]
PyDict(items) == [type |-> "dict", items |-> items]

\* line 113: isinstance(scores, dict) and all(isinstance(doc_id, str) and
\* isinstance(score, (int, float)) ...)
ScoresWellTyped(arg) ==
    /\ arg.type = "dict"
    /\ \A i \in 1..Len(arg.items) :
         /\ arg.items[i].key_type = "str"
         /\ arg.items[i].value_type \in {"int", "float"}

\* the call with the check of line 113 left out and {} returned for {}
score_normalisation_call_Lenient(arg) ==
    IF ~ScoresWellTyped(arg) \/ Len(arg.items) = 0 THEN Return(<< >>)
    ELSE score_normalisation([i \in 1..Len(arg.items) |->
                                <<arg.items[i].key, arg.items[i].value>>])

\* score_normalisation(arg) for an argument of any type: lines 113-114, then
\* lines 116-123
score_normalisation_call(arg) ==
    IF ~ScoresWellTyped(arg) THEN Raise("TypeError")
    ELSE score_normalisation([i \in 1..Len(arg.items) |->
                                <<arg.items[i].key, arg.items[i].value>>])

\* The z-score policy of the score normaliser.  An output is c / stddev for
\* a rational c; it is kept, as a cosine is, as the rational x * |x| =
\* c * |c| / variance, and the shift is done on the numerators c.

\* the z-score policy without the last step, which sets raw zeros back to 0
z_score_normalisation_NoReset(scores) ==
    IF Len(scores) = 0 THEN Raise("ValidationError")
    ELSE LET n == Len(scores)
             mean == RDiv(RSumSeq(Values(scores), 1), RInt(n))
             deviation == [i \in 1..n |-> RSub(scores[i][2], mean)]
             variance == RDiv(RSumSeq([i \in 1..n |-> RMul(deviation[i], deviation[i])], 1),
                              RInt(n))
         IN IF variance = Zero
            THEN Return([i \in 1..n |->
                           <<scores[i][1], IF scores[i][2] = Zero THEN Zero ELSE One>>])
            ELSE LET least == RMinSeq(deviation, 1)
                     shifted == [i \in 1..n |->
                                   IF RSign(least) < 0 THEN RAdd(deviation[i], RAbs(least))
                                   ELSE deviation[i]]
                 IN Return([i \in 1..n |->
                              <<scores[i][1],
                                RDiv(RMul(shifted[i], RAbs(shifted[i])), variance)>>])

\* population mean and standard deviation; stddev == 0: raw 0 -> 0, any other
\* score -> 1; otherwise (score - mean) / stddev, shifted by |minimum| if the
\* minimum is negative, and raw zeros set back to 0
z_score_normalisation(scores) ==
    IF Len(scores) = 0 THEN Raise("ValidationError")
    ELSE LET n == Len(scores)
             mean == RDiv(RSumSeq(Values(scores), 1), RInt(n))
             deviation == [i \in 1..n |-> RSub(scores[i][2], mean)]
             variance == RDiv(RSumSeq([i \in 1..n |-> RMul(deviation[i], deviation[i])], 1),
                              RInt(n))
         IN IF variance = Zero
            THEN Return([i \in 1..n |->
                           <<scores[i][1], IF scores[i][2] = Zero THEN Zero ELSE One>>])
            ELSE LET least == RMinSeq(deviation, 1)
                     shifted == [i \in 1..n |->
                                   IF RSign(least) < 0 THEN RAdd(deviation[i], RAbs(least))
                                   ELSE deviation[i]]
                 IN Return([i \in 1..n |->
                              <<scores[i][1],
                                IF scores[i][2] = Zero THEN Zero
                                ELSE RDiv(RMul(shifted[i], RAbs(shifted[i])), variance)>>])

\* the normaliser with its policy as an option
Policies == {"min-max", "z-score"}
ScoreNormalizer(policy, arg) ==
    IF policy = "min-max" THEN score_normalisation_call(arg)
    ELSE IF ~ScoresWellTyped(arg) THEN Raise("ValidationError")
    ELSE z_score_normalisation([i \in 1..Len(arg.items) |->
                                  <<arg.items[i].key, arg.items[i].value>>])

---------------------------------------------------------------------------
(* ir_models.py: BM25                                                      *)

k_1 == <<6, 5>>
k_2 == 500
b == <<3, 4>>

\* n + 0.5
PlusHalf(n) == Rat(2 * n + 1, 2)

\* IdfArgument with "- n_i" left out of the last term
IdfArgument_NoNi(N, n_i) ==
    LET R == 0
        r_i == 0
    IN RDiv(RDiv(PlusHalf(r_i), PlusHalf(R - r_i)),
            RDiv(PlusHalf(n_i - r_i), PlusHalf(N - R + r_i)))

\* the argument of math.log10 at line 47, with R = 0 and r_i = 0
IdfArgument(N, n_i) ==
    LET R == 0
        r_i == 0
    IN RDiv(RDiv(PlusHalf(r_i), PlusHalf(R - r_i)),
            RDiv(PlusHalf(n_i - r_i), PlusHalf(N - n_i - R + r_i)))

\* lines 54-71: the score of one document for one query term
BM25Score(doc, query_term, query_frequency, idf_component, mean_doc_len) ==
    LET doc_len == doc.doc_len
        K == RMul(k_1, RAdd(RSub(One, b),
                            RDiv(RMul(b, RInt(doc_len)), mean_doc_len)))
        document_term_frequency == Get(doc.terms, query_term, 0)
        saturation_component ==
            RDiv(RMul(RAdd(k_1, One), RInt(document_term_frequency)),
                 RAdd(K, RInt(document_term_frequency)))
        query_component ==
            RDiv(RInt((k_2 + 1) * query_frequency), RInt(k_2 + query_frequency))
    IN RMul(RMul(idf_component, saturation_component), query_component)

\* lines 43-73: the loop over the query's items from item i on; doc_scores
\* is in the order of collection.docs.  log10 of a number <= 0 raises
\* ValueError, the division by a zero mean length ZeroDivisionError.
RECURSIVE BM25Loop(_, _, _, _, _)
BM25Loop(collection, q, i, doc_scores, mean_doc_len) ==
    IF i > Len(q) THEN Return(doc_scores)
    ELSE LET N == Len(collection.docs)
             n_i == Get(collection.term_doc_count, q[i][1], 0)
             arg == IdfArgument(N, n_i)
         IN IF RSign(arg) <= 0 THEN Raise("ValueError")
            ELSE IF mean_doc_len = Zero THEN Raise("ZeroDivisionError")
            ELSE BM25Loop(collection, q, i + 1,
                          [j \in 1..N |->
                             RAdd(doc_scores[j],
                                  BM25Score(collection.docs[j][2], q[i][1], q[i][2],
                                            Log10(arg), mean_doc_len))],
                          mean_doc_len)

\* sum(doc.doc_len for doc in collection.docs.values())
RECURSIVE TotalLength(_, _)
TotalLength(ds, i) ==
    IF i > Len(ds) THEN 0 ELSE ds[i][2].doc_len + TotalLength(ds, i + 1)

BM25(collection, q) ==
    IF Len(collection.docs) = 0 THEN Raise("AttributeError")
    ELSE LET N == Len(collection.docs)
             total_corpus_length == TotalLength(collection.docs, 1)
             mean_doc_len == Rat(total_corpus_length, N)
             loop == BM25Loop(collection, q, 1, [j \in 1..N |-> Zero], mean_doc_len)
         IN IF loop.status # "ok" THEN loop
            ELSE LET normed == score_normalisation(
                                 [j \in 1..N |-> <<collection.docs[j][1], loop.value[j]>>])
                 IN IF normed.status # "ok" THEN normed
                    ELSE Return(sorted_desc(normed.value))

---------------------------------------------------------------------------
(* ir_models.py: JM_LM                                                     *)

\* lambda_val with all the weight on the collection model
lambda_val_One == <<1, 1>>

lambda_val == <<2, 5>>

\* JMScore with the collection part subtracted
JMScore_Minus(doc, query_term, term_collection_frequency, total_corpus_length) ==
    LET term_document_frequency == Get(doc.terms, query_term, 0)
        p_doc == IF doc.doc_len > 0
                 THEN Rat(term_document_frequency, doc.doc_len) ELSE Zero
        p_coll == IF total_corpus_length > 0
                  THEN Rat(term_collection_frequency, total_corpus_length) ELSE Zero
    IN RSub(RMul(RSub(One, lambda_val), p_doc), RMul(lambda_val, p_coll))

\* lines 117-126: the smoothed probability of one term in one document
JMScore(doc, query_term, term_collection_frequency, total_corpus_length) ==
    LET term_document_frequency == Get(doc.terms, query_term, 0)
        p_doc == IF doc.doc_len > 0
                 THEN Rat(term_document_frequency, doc.doc_len) ELSE Zero
        p_coll == IF total_corpus_length > 0
                  THEN Rat(term_collection_frequency, total_corpus_length) ELSE Zero
    IN RAdd(RMul(RSub(One, lambda_val), p_doc), RMul(lambda_val, p_coll))

\* lines 110-131: the loop over the query's terms; each entry of acc is
\* <<doc_scores[doc_id], updated_docs[doc_id]>>, in the order of collection.docs
RECURSIVE JMLoop(_, _, _, _, _)
JMLoop(collection, q, i, acc, total_corpus_length) ==
    IF i > Len(q) THEN acc
    ELSE LET term_collection_frequency == Get(collection.term_doc_count, q[i][1], 0)
         IN JMLoop(collection, q, i + 1,
                   [j \in 1..Len(acc) |->
                      LET score == JMScore(collection.docs[j][2], q[i][1],
                                           term_collection_frequency,
                                           total_corpus_length)
                      IN IF RSign(score) > 0
                         THEN <<RMul(acc[j][1], score), TRUE>>
                         ELSE acc[j]],
                   total_corpus_length)

JM_LM(collection, q) ==
    IF Len(collection.docs) = 0 THEN Raise("AttributeError")
    ELSE LET N == Len(collection.docs)
             total_corpus_length == TotalLength(collection.docs, 1)
             acc == JMLoop(collection, q, 1, [j \in 1..N |-> <<One, FALSE>>],
                           total_corpus_length)
             doc_scores == [j \in 1..N |->
                              <<collection.docs[j][1],
                                IF acc[j][2] THEN acc[j][1] ELSE Zero>>]
         IN Return(sorted_desc(doc_scores))

---------------------------------------------------------------------------
(* ir_models.py: cosine_similarity, vector_space_model                     *)
(* A vector is a function from the terms of all_terms (one index each) to  *)
(* numbers.  A cosine c = dot / (sqrt(s1) * sqrt(s2)) is kept as the       *)
(* rational c * |c| = sign(dot) * dot^2 / (s1 * s2): the map is strictly   *)
(* increasing, so equality, order and sign of cosines are those of the     *)
(* values kept; 0.0 is kept as 0 and 1.0 as 1.                             *)

RECURSIVE RSumOver(_, _)
RSumOver(f, S) ==
    IF S = {} THEN Zero
    ELSE LET x == CHOOSE y \in S : TRUE IN RAdd(f[x], RSumOver(f, S \ {x}))

\* cosine_similarity returning 1.0 where a norm is 0
cosine_similarity_ZeroNormOne(vector1, vector2) ==
    LET dot_product == RSumOver([t \in DOMAIN vector1 |-> RMul(vector1[t], vector2[t])],
                                DOMAIN vector1)
        norm1_squared == RSumOver([t \in DOMAIN vector1 |-> RMul(vector1[t], vector1[t])],
                                  DOMAIN vector1)
        norm2_squared == RSumOver([t \in DOMAIN vector2 |-> RMul(vector2[t], vector2[t])],
                                  DOMAIN vector2)
    IN IF (IF norm1_squared # Zero THEN norm2_squared # Zero ELSE FALSE)
       THEN RDiv(RMul(dot_product, RAbs(dot_product)),
                 RMul(norm1_squared, norm2_squared))
       ELSE One

cosine_similarity(vector1, vector2) ==
    LET dot_product == RSumOver([t \in DOMAIN vector1 |-> RMul(vector1[t], vector2[t])],
                                DOMAIN vector1)
        norm1_squared == RSumOver([t \in DOMAIN vector1 |-> RMul(vector1[t], vector1[t])],
                                  DOMAIN vector1)
        norm2_squared == RSumOver([t \in DOMAIN vector2 |-> RMul(vector2[t], vector2[t])],
                                  DOMAIN vector2)
    IN \* (norm1 and norm2) != 0
       IF (IF norm1_squared # Zero THEN norm2_squared # Zero ELSE FALSE)
       THEN RDiv(RMul(dot_product, RAbs(dot_product)),
                 RMul(norm1_squared, norm2_squared))
       ELSE Zero

\* lines 212-214: the weights written into the list for one document
TfIdf(doc, idf_component, all_terms) ==
    [term \in all_terms |->
       RMul(RInt(Get(doc.terms, term, 0)), Get(idf_component, term, Zero))]

\* lines 200, 208-217: the one list object `vector` after the passes for
\* documents 1..k; a pass overwrites every index of the same list
RECURSIVE VectorAfter(_, _, _, _)
VectorAfter(collection, idf_component, all_terms, k) ==
    IF k = 0 THEN [term \in all_terms |-> Zero]
    ELSE LET vector == VectorAfter(collection, idf_component, all_terms, k - 1)
             weights == TfIdf(collection.docs[k][2], idf_component, all_terms)
         IN [term \in all_terms |-> IF term \in DOMAIN weights THEN weights[term]
                                    ELSE vector[term]]

\* lines 191-192: idf for all terms of the index
IdfComponent(collection) ==
    [term \in DOMAIN collection.term_frequency |->
       Log10(Rat(Len(collection.docs), collection.term_frequency[term]))]

\* lines 201-205: the query as a vector over all_terms
QueryVector(collection, q) ==
    [term \in DOMAIN collection.term_frequency |-> RInt(OGet(q, term, 0))]

vector_space_model(collection, q) ==
    IF Len(collection.docs) = 0 THEN Raise("AttributeError")
    ELSE LET N == Len(collection.docs)
             idf_component == IdfComponent(collection)
             all_terms == DOMAIN collection.term_frequency
             query_vector == QueryVector(collection, q)
             \* document_vectors[doc_ID] = vector stores a reference to the
             \* one list, read at line 221 after the loop has ended
             vector == VectorAfter(collection, idf_component, all_terms, N)
             document_vectors == [j \in 1..N |-> <<collection.docs[j][1], vector>>]
             document_similarity_scores ==
                 [j \in 1..N |-> <<document_vectors[j][1],
                                   cosine_similarity(document_vectors[j][2], query_vector)>>]
         IN Return(sorted_desc(document_similarity_scores))

---------------------------------------------------------------------------
(* ir_models.py: w5, My_PRM                                                *)

\* the collection documents that contain term / that contain it and are
\* labelled 1 (lines 256-260)
DocsWith(collection, term) ==
    {j \in 1..Len(collection.docs) : term \in DOMAIN collection.docs[j][2].terms}
RelevantDocsWith(collection, evaluations, term) ==
    {j \in DocsWith(collection, term) : evaluations[collection.docs[j][1]] = 1}

\* Weight5 with R left out of the last denominator
Weight5_NoR(relevance_count, n_tk, R, N) ==
    LET score_numerator == RDiv(PlusHalf(relevance_count), PlusHalf(R - relevance_count))
        score_denominator == RDiv(PlusHalf(n_tk - relevance_count),
                                  PlusHalf(N - n_tk + relevance_count))
    IN RDiv(score_numerator, score_denominator)

\* lines 266-268
Weight5(relevance_count, n_tk, R, N) ==
    LET score_numerator == RDiv(PlusHalf(relevance_count), PlusHalf(R - relevance_count))
        score_denominator == RDiv(PlusHalf(n_tk - relevance_count),
                                  PlusHalf(N - n_tk - R + relevance_count))
    IN RDiv(score_numerator, score_denominator)

\* w5 taking the mean of the scores also where no document is labelled 1
w5_MeanAlways(collection, evaluations, theta) ==
    IF Len(collection.docs) = 0 THEN Raise("AttributeError")
    ELSE IF \E j \in 1..Len(collection.docs) :
               /\ DOMAIN collection.docs[j][2].terms # {}
               /\ collection.docs[j][1] \notin DOMAIN evaluations
    THEN Raise("KeyError")
    ELSE LET N == Len(collection.docs)
             R == Cardinality({d \in DOMAIN evaluations : evaluations[d] = 1})
             all == UNION {DOMAIN collection.docs[j][2].terms : j \in 1..N}
             term_total_count ==
                 [term \in all |-> Cardinality(DocsWith(collection, term))]
             term_relevance_count ==
                 [term \in {t \in all : RelevantDocsWith(collection, evaluations, t) # {}} |->
                    Cardinality(RelevantDocsWith(collection, evaluations, term))]
             weight5_scores ==
                 [term \in DOMAIN term_relevance_count |->
                    Weight5(term_relevance_count[term], term_total_count[term], R, N)]
         IN IF DOMAIN weight5_scores = {} THEN Raise("ZeroDivisionError")
            ELSE LET mean_weight5 ==
                         IF R > 0
                         THEN RDiv(RSumOver(weight5_scores, DOMAIN weight5_scores),
                                   RInt(Cardinality(DOMAIN weight5_scores)))
                         ELSE Zero
                     selected == {term \in DOMAIN weight5_scores :
                                    RLess(RAdd(mean_weight5, theta), weight5_scores[term])}
                 IN Return([term \in selected |-> weight5_scores[term]])

\* evaluations is a dict doc_id -> label; line 258 reads evaluations[doc_id]
\* for every term of every document, a KeyError when the id is no key
w5(collection, evaluations, theta) ==
    IF Len(collection.docs) = 0 THEN Raise("AttributeError")
    ELSE IF \E j \in 1..Len(collection.docs) :
               /\ DOMAIN collection.docs[j][2].terms # {}
               /\ collection.docs[j][1] \notin DOMAIN evaluations
    THEN Raise("KeyError")
    ELSE LET N == Len(collection.docs)
             R == Cardinality({d \in DOMAIN evaluations : evaluations[d] = 1})
             all == UNION {DOMAIN collection.docs[j][2].terms : j \in 1..N}
             term_total_count ==
                 [term \in all |-> Cardinality(DocsWith(collection, term))]
             term_relevance_count ==
                 [term \in {t \in all : RelevantDocsWith(collection, evaluations, t) # {}} |->
                    Cardinality(RelevantDocsWith(collection, evaluations, term))]
             weight5_scores ==
                 [term \in DOMAIN term_relevance_count |->
                    Weight5(term_relevance_count[term], term_total_count[term], R, N)]
         IN IF R > 0 /\ DOMAIN weight5_scores = {} THEN Raise("ZeroDivisionError")
            ELSE LET mean_weight5 ==
                         IF R > 0
                         THEN RDiv(RSumOver(weight5_scores, DOMAIN weight5_scores),
                                   RInt(Cardinality(DOMAIN weight5_scores)))
                         ELSE Zero
                     selected == {term \in DOMAIN weight5_scores :
                                    RLess(RAdd(mean_weight5, theta), weight5_scores[term])}
                 IN Return([term \in selected |-> weight5_scores[term]])

\* the callables handed to My_PRM
WeightingFunctions == {"BM25", "JM_LM", "vector_space_model"}

\* weighting_function(collection, query)
Apply(weighting_function, collection, q) ==
    CASE weighting_function = "BM25" -> BM25(collection, q)
      [] weighting_function = "JM_LM" -> JM_LM(collection, q)
      [] weighting_function = "vector_space_model" -> vector_space_model(collection, q)

\* the comparison of line 302 as score >= threshold
Exceeds_AtLeast(weighting_function, score, threshold) ==
    IF weighting_function = "vector_space_model"
    THEN ~RLess(score, RMul(threshold, RAbs(threshold)))
    ELSE ~RLess(score, threshold)

\* score > threshold at line 302; a cosine is kept as c * |c|
Exceeds(weighting_function, score, threshold) ==
    IF weighting_function = "vector_space_model"
    THEN RLess(RMul(threshold, RAbs(threshold)), score)
    ELSE RLess(threshold, score)

\* the labels with the top-ranked document always labelled 1
RelevantDocuments_TopAlways(weighting_function, ranked, threshold) ==
    [doc \in KeySet(ranked) |->
       IF doc = ranked[1][1] \/ Exceeds(weighting_function, Lookup(ranked, doc), threshold)
       THEN 1 ELSE 0]

\* lines 301-302: the label of every document of the weighting result
RelevantDocuments(weighting_function, ranked, threshold) ==
    [doc \in KeySet(ranked) |->
       IF Exceeds(weighting_function, Lookup(ranked, doc), threshold) THEN 1 ELSE 0]

\* lines 308-310: the sum of frequency * w5 weight over each document's terms
FeatureScores(collection, w5_results) ==
    [j \in 1..Len(collection.docs) |->
       LET terms == collection.docs[j][2].terms
       IN <<collection.docs[j][1],
            RSumOver([term \in DOMAIN terms |->
                        RMul(RInt(terms[term]), Get(w5_results, term, Zero))],
                     DOMAIN terms)>>]

\* lines 313-315: the normalised scores sorted, or the exception raised
SortNormalised(normed) ==
    IF normed.status # "ok" THEN normed ELSE Return(sorted_desc(normed.value))

\* lines 307-315, from the outcome of the w5 call on
RankByFeatures(collection, w5_call) ==
    IF w5_call.status # "ok" THEN w5_call
    ELSE SortNormalised(score_normalisation(FeatureScores(collection, w5_call.value)))

\* lines 299-315, from the outcome of the weighting function on
PseudoFeedback(weighting_function, collection, threshold, theta, weighting_result) ==
    IF weighting_result.status # "ok" THEN weighting_result
    ELSE RankByFeatures(collection,
                        w5(collection,
                           RelevantDocuments(weighting_function, weighting_result.value,
                                             threshold),
                           theta))

My_PRM(weighting_function, collection, q, threshold, theta) ==
    PseudoFeedback(weighting_function, collection, threshold, theta,
                   Apply(weighting_function, collection, q))

---------------------------------------------------------------------------
(* ir_tools.py: term_specificity                                           *)

\* Specificity without the negative coverage of lines 82-83
Specificity_PositiveOnly(collection, query_term, relevant_docs, non_relevant_docs) ==
    LET N == Len(collection.docs)
        tf(j) == Get(collection.docs[j][2].terms, query_term, 0)
        positive_coverage ==
            SumOver([j \in 1..N |-> tf(j)],
                    {j \in 1..N : collection.docs[j][1] \in relevant_docs})
        D == Cardinality(relevant_docs)
    IN Rat(positive_coverage, D)

\* lines 77-85 for one query term
Specificity(collection, query_term, relevant_docs, non_relevant_docs) ==
    LET N == Len(collection.docs)
        tf(j) == Get(collection.docs[j][2].terms, query_term, 0)
        positive_coverage ==
            SumOver([j \in 1..N |-> tf(j)],
                    {j \in 1..N : collection.docs[j][1] \in relevant_docs})
        negative_coverage ==
            SumOver([j \in 1..N |-> tf(j)],
                    {j \in 1..N : /\ collection.docs[j][1] \notin relevant_docs
                                  /\ collection.docs[j][1] \in non_relevant_docs})
        D == Cardinality(relevant_docs)
    IN Rat(positive_coverage - negative_coverage, D)

\* WeightedTerms with a general term weighted as a positive one
RECURSIVE WeightedTerms_GeneralScaled(_, _, _, _, _)
WeightedTerms_GeneralScaled(q, i, specificity, theta_1, theta_2) ==
    IF i > Len(q) THEN << >>
    ELSE LET query_term == q[i][1]
             f == RInt(q[i][2])
             s == specificity[query_term]
             rest == WeightedTerms_GeneralScaled(q, i + 1, specificity, theta_1, theta_2)
         IN IF ~RLess(theta_1, s)
            THEN <<<<query_term, RSub(f, RAbs(RMul(f, s)))>>>> \o rest
            ELSE <<<<query_term, RAdd(f, RMul(f, s))>>>> \o rest

\* lines 93-99: the items of weighted_terms for the query items from i on
RECURSIVE WeightedTerms(_, _, _, _, _)
WeightedTerms(q, i, specificity, theta_1, theta_2) ==
    IF i > Len(q) THEN << >>
    ELSE LET query_term == q[i][1]
             f == RInt(q[i][2])
             s == specificity[query_term]
             positive == ~RLess(s, theta_2)
             general == RLess(theta_1, s) /\ RLess(s, theta_2)
             negative == ~RLess(theta_1, s)
             rest == WeightedTerms(q, i + 1, specificity, theta_1, theta_2)
         IN IF positive THEN <<<<query_term, RAdd(f, RMul(f, s))>>>> \o rest
            ELSE IF general THEN <<<<query_term, f>>>> \o rest
            ELSE IF negative THEN <<<<query_term, RSub(f, RAbs(RMul(f, s)))>>>> \o rest
            ELSE rest

\* term_specificity without the check of lines 67-69: the division by
\* D = 0 at line 85 raises ZeroDivisionError
term_specificity_LabelsUnchecked(collection, q, evaluations, theta_1, theta_2) ==
    IF Len(collection.docs) = 0 THEN Raise("AttributeError")
    ELSE IF ~RLess(theta_1, theta_2) THEN Raise("ValueError")
    ELSE LET relevant_docs == {d \in DOMAIN evaluations : evaluations[d] = 1}
             non_relevant_docs == {d \in DOMAIN evaluations : evaluations[d] = 0}
         IN IF relevant_docs = {} /\ Len(q) > 0 THEN Raise("ZeroDivisionError")
            ELSE IF relevant_docs = {} THEN Return(<< >>)
            ELSE LET specificity ==
                         [query_term \in KeySet(q) |->
                            Specificity(collection, query_term, relevant_docs,
                                        non_relevant_docs)]
                 IN Return(WeightedTerms(q, 1, specificity, theta_1, theta_2))

\* term_specificity with the boundary check before the collection check
term_specificity_ThetaFirst(collection, q, evaluations, theta_1, theta_2) ==
    IF ~RLess(theta_1, theta_2) THEN Raise("ValueError")
    ELSE IF Len(collection.docs) = 0 THEN Raise("AttributeError")
    ELSE LET relevant_docs == {d \in DOMAIN evaluations : evaluations[d] = 1}
             non_relevant_docs == {d \in DOMAIN evaluations : evaluations[d] = 0}
         IN IF relevant_docs = {} \/ non_relevant_docs = {} THEN Raise("AttributeError")
            ELSE LET specificity ==
                         [query_term \in KeySet(q) |->
                            Specificity(collection, query_term, relevant_docs,
                                        non_relevant_docs)]
                 IN Return(WeightedTerms(q, 1, specificity, theta_1, theta_2))

term_specificity(collection, q, evaluations, theta_1, theta_2) ==
    IF Len(collection.docs) = 0 THEN Raise("AttributeError")
    ELSE IF ~RLess(theta_1, theta_2) THEN Raise("ValueError")
    ELSE LET relevant_docs == {d \in DOMAIN evaluations : evaluations[d] = 1}
             non_relevant_docs == {d \in DOMAIN evaluations : evaluations[d] = 0}
         IN IF relevant_docs = {} \/ non_relevant_docs = {} THEN Raise("AttributeError")
            ELSE LET specificity ==
                         [query_term \in KeySet(q) |->
                            Specificity(collection, query_term, relevant_docs,
                                        non_relevant_docs)]
                 IN Return(WeightedTerms(q, 1, specificity, theta_1, theta_2))

---------------------------------------------------------------------------
(* The state machine                                                       *)

\* the collection object as the ranking functions see it: docs maps each id
\* to the stored bow_document object
collection ==
    [docs |-> [i \in 1..Len(docs) |-> <<docs[i][1], objs[docs[i][2]]>>],
     term_doc_count |-> term_doc_count,
     term_frequency |-> term_frequency]

\* result while no call's outcome is pending: the program is single-threaded
\* and its caller takes the outcome of one call before it makes the next
NoResult == [op |-> "none", status |-> "ok"]
Idle == result = NoResult

Init ==
    /\ objs = << >>
    /\ docs = << >>
    /\ term_doc_count = EmptyDict
    /\ term_frequency = EmptyDict
    /\ added = << >>
    /\ add_term_ok = << >>
    /\ query = << >>
    /\ result = NoResult

\* doc = bow_document(item_id)
NewDoc(item_id) ==
    /\ Idle
    /\ Len(objs) < Cardinality(Refs)
    /\ objs' = Append(objs, bow_document(item_id))
    /\ add_term_ok' = Append(add_term_ok, 0)
    /\ result' = NoResult /\ query' = << >>
    /\ UNCHANGED <<docs, term_doc_count, term_frequency, added>>

\* objs[o].add_term(term) with a string term
AddTerm(o, term) ==
    /\ Idle
    /\ o \in 1..Len(objs)
    /\ objs[o].doc_len < MaxLen
    /\ objs' = [objs EXCEPT ![o] = add_term(objs[o], term)]
    /\ add_term_ok' = [add_term_ok EXCEPT ![o] = @ + 1]
    /\ result' = NoResult /\ query' = << >>
    /\ UNCHANGED <<docs, term_doc_count, term_frequency, added>>

\* add_doc adding a term's in-document count to both indexes
AddDoc_CountsTokens(o) ==
    /\ Idle
    /\ o \in 1..Len(objs)
    /\ Len(added) < MaxAdds
    /\ docs' = OrderedPut(docs, objs[o].doc_id, o)
    /\ term_doc_count' =
          [term \in DOMAIN term_doc_count \cup DOMAIN objs[o].terms |->
             Get(term_doc_count, term, 0) + Get(objs[o].terms, term, 0)]
    /\ term_frequency' =
          [term \in DOMAIN term_frequency \cup DOMAIN objs[o].terms |->
             Get(term_frequency, term, 0) + Get(objs[o].terms, term, 0)]
    /\ added' = Append(added, [obj |-> o, terms |-> objs[o].terms])
    /\ result' = NoResult /\ query' = << >>
    /\ UNCHANGED <<objs, add_term_ok>>

\* add_doc adding a term's in-document count to term_frequency
AddDoc_TokenCount(o) ==
    /\ Idle
    /\ o \in 1..Len(objs)
    /\ Len(added) < MaxAdds
    /\ docs' = OrderedPut(docs, objs[o].doc_id, o)
    /\ term_doc_count' = IndexUpdate(term_doc_count, DOMAIN objs[o].terms)
    /\ term_frequency' =
          [term \in DOMAIN term_frequency \cup DOMAIN objs[o].terms |->
             Get(term_frequency, term, 0) + Get(objs[o].terms, term, 0)]
    /\ added' = Append(added, [obj |-> o, terms |-> objs[o].terms])
    /\ result' = NoResult /\ query' = << >>
    /\ UNCHANGED <<objs, add_term_ok>>

\* collection.add_doc(objs[o])
AddDoc(o) ==
    /\ Idle
    /\ o \in 1..Len(objs)
    /\ Len(added) < MaxAdds
    /\ docs' = OrderedPut(docs, objs[o].doc_id, o)
    /\ term_doc_count' = IndexUpdate(term_doc_count, DOMAIN objs[o].terms)
    /\ term_frequency' = IndexUpdate(term_frequency, DOMAIN objs[o].terms)
    /\ added' = Append(added, [obj |-> o, terms |-> objs[o].terms])
    /\ result' = NoResult /\ query' = << >>
    /\ UNCHANGED <<objs, add_term_ok>>

Build ==
    \/ \E item_id \in Ids : NewDoc(item_id)
    \/ \E o \in Refs, term \in Terms : AddTerm(o, term)
    \/ \E o \in Refs : AddDoc(o)

Next == Build

Spec == Init /\ [][Next]_vars

---------------------------------------------------------------------------
(* Calls of the ranking and feedback functions.  The arguments are drawn   *)
(* from small sets; query is the caller's dict after the call, result what *)
(* the call returned or raised.                                            *)

Queries ==
    { << >>,
      << <<"cat", 1>> >>,
      << <<"dog", 2>> >>,
      << <<"cat", 1>>, <<"dog", 1>> >> }

\* the queries of the BM25 calls.  The exact scores have denominators near
\* TLC's 32-bit integers: the query frequencies are 1 (query_component is
\* then 501/501) and the second term of the two-term query is one that no
\* document contains.
BM25Queries ==
    { << >>,
      << <<"cat", 1>> >>,
      << <<"dog", 1>> >>,
      << <<"cat", 1>>, <<"emu", 1>> >> }

\* relevance judgments: every labelling of the ids, and one that leaves out "2"
Evaluations == [Ids -> {0, 1}] \cup {[d \in {"1"} |-> 1]}

Thetas == {Zero, One}
Thresholds == {Zero, <<1, 2>>, One}
ThetaPairs == {<<RInt(-1), One>>, <<RInt(-2), RInt(2)>>, <<Zero, Zero>>}
\* the queries of the feedback calls
FeedbackQueries == {<< <<"cat", 1>> >>, << <<"cat", 1>>, <<"emu", 1>> >>}

\* the record kept of a call
Called(op, args, outcome) ==
    IF outcome.status = "ok"
    THEN [op |-> op, args |-> args, status |-> "ok", value |-> outcome.value]
    ELSE [op |-> op, args |-> args, status |-> outcome.status]

RankOps == {"BM25", "JM_LM", "vector_space_model", "w5", "My_PRM", "term_specificity"}

CallBM25(q) ==
    /\ Idle
    /\ result' = Called("BM25", [query |-> q], BM25(collection, q))
    /\ query' = q
    /\ UNCHANGED <<objs, docs, term_doc_count, term_frequency, added, add_term_ok>>

CallJM_LM(q) ==
    /\ Idle
    /\ result' = Called("JM_LM", [query |-> q], JM_LM(collection, q))
    /\ query' = q
    /\ UNCHANGED <<objs, docs, term_doc_count, term_frequency, added, add_term_ok>>

\* a vector_space_model call that stores the idf in the aliased index dict
CallVSM_WritesIndex(q) ==
    /\ Idle
    /\ result' = Called("vector_space_model", [query |-> q],
                        vector_space_model(collection, q))
    /\ query' = q
    /\ term_frequency' = [term \in DOMAIN term_frequency |-> 0]
    /\ UNCHANGED <<objs, docs, term_doc_count, added, add_term_ok>>

CallVSM(q) ==
    /\ Idle
    /\ result' = Called("vector_space_model", [query |-> q],
                        vector_space_model(collection, q))
    /\ query' = q
    /\ UNCHANGED <<objs, docs, term_doc_count, term_frequency, added, add_term_ok>>

CallW5(evaluations, theta) ==
    /\ Idle
    /\ result' = Called("w5", [evaluations |-> evaluations, theta |-> theta],
                        w5(collection, evaluations, theta))
    /\ UNCHANGED <<objs, docs, term_doc_count, term_frequency, added, add_term_ok, query>>

CallMy_PRM(wf, q, threshold, theta) ==
    /\ Idle
    /\ result' = Called("My_PRM",
                        [weighting_function |-> wf, query |-> q,
                         threshold |-> threshold, theta |-> theta],
                        My_PRM(wf, collection, q, threshold, theta))
    /\ query' = q
    /\ UNCHANGED <<objs, docs, term_doc_count, term_frequency, added, add_term_ok>>

CallTermSpecificity(q, evaluations, thetas) ==
    /\ Idle
    /\ result' = Called("term_specificity",
                        [query |-> q, evaluations |-> evaluations,
                         theta_1 |-> thetas[1], theta_2 |-> thetas[2]],
                        term_specificity(collection, q, evaluations, thetas[1], thetas[2]))
    /\ query' = q
    /\ UNCHANGED <<objs, docs, term_doc_count, term_frequency, added, add_term_ok>>

\* the arguments of the direct score_normalisation calls: mappings of
\* scores, and arguments that are no such mapping
ScoreArgs ==
    { PyDict(<< >>),
      PyDict(<<PyItem("str", "1", "int", RInt(4))>>),
      PyDict(<<PyItem("str", "1", "float", <<1, 2>>), PyItem("str", "2", "float", <<1, 2>>)>>),
      PyDict(<<PyItem("str", "1", "float", <<1, 2>>), PyItem("str", "2", "int", RInt(-1))>>),
      PyDict(<<PyItem("str", "1", "int", RInt(3)), PyItem("str", "2", "int", RInt(-1)),
               PyItem("str", "3", "int", RInt(1)), PyItem("str", "4", "int", RInt(3))>>),
      [type |-> "list", items |-> << >>],
      PyDict(<<PyItem("int", "1", "float", One)>>),
      PyDict(<<PyItem("str", "1", "float", One), PyItem("str", "2", "str", Zero)>>) }

CallScoreNormalisation(arg) ==
    /\ Idle
    /\ result' = Called("score_normalisation", [scores |-> arg],
                        score_normalisation_call(arg))
    /\ UNCHANGED <<objs, docs, term_doc_count, term_frequency, added, add_term_ok, query>>

\* the arguments of the calls of the normaliser with a policy
PolicyArgs ==
    { PyDict(<< >>),
      PyDict(<<PyItem("str", "1", "int", Zero), PyItem("str", "2", "int", Zero)>>),
      PyDict(<<PyItem("str", "1", "int", RInt(4)), PyItem("str", "2", "int", RInt(4))>>),
      PyDict(<<PyItem("str", "1", "int", Zero), PyItem("str", "2", "int", RInt(3))>>),
      PyDict(<<PyItem("str", "1", "int", Zero), PyItem("str", "2", "int", RInt(-1)),
               PyItem("str", "3", "float", <<1, 2>>)>>),
      PyDict(<<PyItem("str", "1", "str", Zero)>>) }

CallScoreNormalizer(policy, arg) ==
    /\ Idle
    /\ result' = Called("score_normalizer", [policy |-> policy, scores |-> arg],
                        ScoreNormalizer(policy, arg))
    /\ UNCHANGED <<objs, docs, term_doc_count, term_frequency, added, add_term_ok, query>>

\* the caller has taken the outcome of the last call
TakeResult ==
    /\ ~Idle
    /\ result' = NoResult
    /\ query' = << >>
    /\ UNCHANGED <<objs, docs, term_doc_count, term_frequency, added, add_term_ok>>

Rank ==
    \/ \E q \in BM25Queries : CallBM25(q)
    \/ \E q \in Queries : CallJM_LM(q)
    \/ \E q \in Queries : CallVSM(q)
    \/ \E evaluations \in Evaluations, theta \in Thetas : CallW5(evaluations, theta)
    \/ \E wf \in WeightingFunctions, q \in FeedbackQueries, threshold \in Thresholds :
          CallMy_PRM(wf, q, threshold, Zero)
    \/ \E q \in FeedbackQueries, evaluations \in Evaluations, thetas \in ThetaPairs :
          CallTermSpecificity(q, evaluations, thetas)
    \/ \E arg \in ScoreArgs : CallScoreNormalisation(arg)
    \/ \E policy \in Policies, arg \in PolicyArgs : CallScoreNormalizer(policy, arg)

(* Ingestion as parse_collection does it: a document is created, filled    *)
(* with its terms and then added, one document after the other.            *)

IngestNew(item_id) == Len(objs) = Len(added) /\ NewDoc(item_id)
IngestTerm(term) == Len(objs) > Len(added) /\ AddTerm(Len(objs), term)
IngestAdd == Len(objs) > Len(added) /\ AddDoc(Len(objs))

NextRank ==
    \/ \E item_id \in Ids : IngestNew(item_id)
    \/ \E term \in Terms : IngestTerm(term)
    \/ IngestAdd
    \/ Rank
    \/ TakeResult

SpecRank == Init /\ [][NextRank]_vars

---------------------------------------------------------------------------
(* Assignments to doc_len by a caller, next to ingestion.                  *)

\* the values assigned: -1, 0, 2, 2.0, 1.5 and "2"
LenArgs ==
    { PyNumber("int", RInt(-1)), PyNumber("int", Zero), PyNumber("int", RInt(2)),
      PyNumber("float", RInt(2)), PyNumber("float", <<3, 2>>), PyNumber("str", RInt(2)) }

\* objs[o].doc_len = arg
SetDocLen(o, arg) ==
    /\ Idle
    /\ o \in 1..Len(objs)
    /\ LET outcome == doc_len_setter(objs[o], arg)
       IN /\ objs' = IF outcome.status = "ok" THEN [objs EXCEPT ![o] = outcome.value]
                     ELSE objs
          /\ result' = [op |-> "doc_len", args |-> [obj |-> o, value |-> arg],
                        status |-> outcome.status]
    /\ UNCHANGED <<docs, term_doc_count, term_frequency, added, add_term_ok, query>>

\* add_term on the document being filled, while it has fewer than MaxLen tokens
FillTerm(term) ==
    /\ Len(objs) > Len(added)
    /\ SumValues(objs[Len(objs)].terms) < MaxLen
    /\ AddTerm(Len(objs), term)

NextLen ==
    \/ \E item_id \in Ids : IngestNew(item_id)
    \/ \E term \in Terms : FillTerm(term)
    \/ IngestAdd
    \/ \E o \in Refs, arg \in LenArgs : SetDocLen(o, arg)
    \/ TakeResult

SpecLen == Init /\ [][NextLen]_vars

---------------------------------------------------------------------------
(* add_term and add_doc called with arguments of any type.                 *)

\* an argument as the caller passes it: its type and what it is written as
PyValue(type, value) == [type |-> type, value |-> value]

\* add_term extending doc_len before it checks the term
add_term_call_LengthFirst(doc, arg) ==
    IF arg.type # "str"
    THEN [status |-> "TypeError", doc |-> [doc EXCEPT !.doc_len = @ + 1]]
    ELSE [status |-> "ok", doc |-> add_term(doc, arg.value)]

\* doc.add_term(arg): the outcome and the object's fields after the call
add_term_call(doc, arg) ==
    IF arg.type # "str"
    THEN [status |-> "TypeError", doc |-> doc]
    ELSE [status |-> "ok", doc |-> add_term(doc, arg.value)]

\* the terms passed: "cat", "dog", 7 and None
TermArgs ==
    { PyValue("str", "cat"), PyValue("str", "dog"),
      PyValue("int", "7"), PyValue("NoneType", "None") }

\* the documents passed: each object, the string "1" and None
PyObject(type, ref) == [type |-> type, ref |-> ref]
DocArgs ==
    { PyObject("bow_document", o) : o \in Refs }
        \cup { PyObject("str", 0), PyObject("NoneType", 0) }

\* objs[o].add_term(arg)
CallAddTerm(o, arg) ==
    /\ Idle
    /\ o \in 1..Len(objs)
    /\ objs[o].doc_len < MaxLen
    /\ LET outcome == add_term_call(objs[o], arg)
       IN /\ objs' = [objs EXCEPT ![o] = outcome.doc]
          /\ add_term_ok' = IF outcome.status = "ok"
                            THEN [add_term_ok EXCEPT ![o] = @ + 1]
                            ELSE add_term_ok
          /\ result' = [op |-> "add_term", args |-> [obj |-> o, term |-> arg],
                        status |-> outcome.status]
    /\ UNCHANGED <<docs, term_doc_count, term_frequency, added, query>>

\* collection.add_doc(arg)
CallAddDoc(arg) ==
    /\ Idle
    /\ Len(added) < MaxAdds
    /\ arg.type = "bow_document" => arg.ref \in 1..Len(objs)
    /\ IF arg.type # "bow_document"
       THEN /\ result' = [op |-> "add_doc", args |-> [doc |-> arg],
                          status |-> "TypeError"]
            /\ UNCHANGED <<docs, term_doc_count, term_frequency, added>>
       ELSE /\ docs' = OrderedPut(docs, objs[arg.ref].doc_id, arg.ref)
            /\ term_doc_count' = IndexUpdate(term_doc_count, DOMAIN objs[arg.ref].terms)
            /\ term_frequency' = IndexUpdate(term_frequency, DOMAIN objs[arg.ref].terms)
            /\ added' = Append(added, [obj |-> arg.ref, terms |-> objs[arg.ref].terms])
            /\ result' = [op |-> "add_doc", args |-> [doc |-> arg], status |-> "ok"]
    /\ UNCHANGED <<objs, add_term_ok, query>>

NextTyped ==
    \/ \E item_id \in Ids : NewDoc(item_id)
    \/ \E o \in Refs, arg \in TermArgs : CallAddTerm(o, arg)
    \/ \E arg \in DocArgs : CallAddDoc(arg)
    \/ TakeResult

SpecTyped == Init /\ [][NextTyped]_vars

---------------------------------------------------------------------------
(* Properties                                                              *)

\* the value of a score mapping for a document id
Score(value, doc_id) == Lookup(value, doc_id)

CatQuery == << <<"cat", 1>> >>
Doc1Terms == [term \in {"cat", "dog"} |-> IF term = "cat" THEN 2 ELSE 1]
Doc2Terms == [term \in {"dog"} |-> 3]

\* the collection of the end-to-end scenario: document "1" with terms
\* {cat:2, dog:1} was added, then document "2" with terms {dog:3}
Scenario ==
    /\ Len(added) = 2
    /\ Keys(docs) = <<"1", "2">>
    /\ docs[1][2] = added[1].obj /\ docs[2][2] = added[2].obj
    /\ added[1].terms = Doc1Terms /\ objs[added[1].obj].terms = Doc1Terms
    /\ added[2].terms = Doc2Terms /\ objs[added[2].obj].terms = Doc2Terms

\* a call of op with the query {cat:1} on the scenario's collection has returned
ScenarioCall(op) ==
    /\ Scenario
    /\ result.op = op
    /\ result.args.query = CatQuery

\* C1 as stated: in the scenario BM25 with query {cat:1} returns a strictly
\* higher score for document "1" than for document "2".
C1_BM25ScenarioHigher ==
    ScenarioCall("BM25") =>
        /\ result.status = "ok"
        /\ RLess(Score(result.value, "2"), Score(result.value, "1"))

\* C1 as amended: in the scenario BM25 with query {cat:1} returns the same
\* score, 0, for documents "1" and "2": n_i = 1 of N = 2 documents contain
\* "cat", so the idf is log10(1) = 0.
C1_BM25ScenarioEqual ==
    ScenarioCall("BM25") =>
        /\ result.status = "ok"
        /\ Score(result.value, "1") = Zero
        /\ Score(result.value, "2") = Zero

C1_Witness == ScenarioCall("BM25") /\ result.status = "ok"

\* C2 as stated: the similarity vector_space_model returns for a document
\* is the cosine between the query vector and the tf*idf vector built from
\* that document's own term frequencies.
C2_VSMOwnVector ==
    (result.op = "vector_space_model" /\ result.status = "ok") =>
        \A j \in 1..Len(collection.docs) :
            Score(result.value, collection.docs[j][1]) =
                cosine_similarity(TfIdf(collection.docs[j][2], IdfComponent(collection),
                                        DOMAIN collection.term_frequency),
                                  QueryVector(collection, result.args.query))

\* C3: in the scenario vector_space_model with query {cat:1} returns a
\* similarity of exactly 0.0 for document "2".
C3_VSMScenarioZero ==
    ScenarioCall("vector_space_model") =>
        /\ result.status = "ok"
        /\ Score(result.value, "2") = Zero

C3_Witness ==
    /\ ScenarioCall("vector_space_model")
    /\ result.status = "ok"
    /\ "2" \in KeySet(result.value)

\* C4: in the scenario JM_LM with query {cat:1} returns for document "2" a
\* score strictly lower than the score of document "1".
C4_JMScenarioLower ==
    ScenarioCall("JM_LM") =>
        /\ result.status = "ok"
        /\ RLess(Score(result.value, "2"), Score(result.value, "1"))

C4_Witness ==
    /\ ScenarioCall("JM_LM")
    /\ result.status = "ok"
    /\ KeySet(result.value) = {"1", "2"}

\* C5 as stated: every score JM_LM returns is zero or negative, never
\* positive, and in the scenario the score of document "2" for the query
\* {cat:1} is strictly negative.
C5_JMNeverPositive ==
    (result.op = "JM_LM" /\ result.status = "ok") =>
        /\ \A j \in 1..Len(result.value) : ~RLess(Zero, result.value[j][2])
        /\ ScenarioCall("JM_LM") => RLess(Score(result.value, "2"), Zero)

\* the product of the positive smoothed probabilities of the query's terms
\* from term i on, and whether there is one
RECURSIVE PositiveProduct(_, _, _, _)
PositiveProduct(c, doc, q, i) ==
    IF i > Len(q) THEN One
    ELSE LET p == RAdd(RMul(<<3, 5>>,
                            IF doc.doc_len > 0
                            THEN Rat(Get(doc.terms, q[i][1], 0), doc.doc_len) ELSE Zero),
                       RMul(<<2, 5>>,
                            IF TotalLength(c.docs, 1) > 0
                            THEN Rat(Get(c.term_doc_count, q[i][1], 0),
                                     TotalLength(c.docs, 1))
                            ELSE Zero))
         IN IF RSign(p) > 0 THEN RMul(p, PositiveProduct(c, doc, q, i + 1))
            ELSE PositiveProduct(c, doc, q, i + 1)
SomePositive(c, doc, q) ==
    \E i \in 1..Len(q) :
        \/ doc.doc_len > 0 /\ Get(doc.terms, q[i][1], 0) > 0
        \/ TotalLength(c.docs, 1) > 0 /\ Get(c.term_doc_count, q[i][1], 0) > 0

\* C5 as amended: JM_LM's score for a document is a product: it starts at 1
\* and is multiplied by p = 0.6*p_doc + 0.4*p_coll for each query term whose
\* p is positive, and it is 0 when no query term has a positive p; every
\* score is zero or positive, never negative, and in the scenario the score
\* of document "2" for the query {cat:1} is strictly positive (1/15).
C5_JMProduct ==
    (result.op = "JM_LM" /\ result.status = "ok") =>
        /\ \A j \in 1..Len(collection.docs) :
             LET doc == collection.docs[j][2]
                 score == Score(result.value, collection.docs[j][1])
             IN /\ ~RLess(score, Zero)
                /\ score = IF SomePositive(collection, doc, result.args.query)
                           THEN PositiveProduct(collection, doc, result.args.query, 1)
                           ELSE Zero
        /\ ScenarioCall("JM_LM") => Score(result.value, "2") = <<1, 15>>

C5_Witness ==
    /\ ScenarioCall("JM_LM")
    /\ result.status = "ok"
    /\ RLess(Zero, Score(result.value, "2"))

\* every add_doc call was made with a document that has not changed since
AddedComplete == \A i \in 1..Len(added) : objs[added[i].obj].terms = added[i].terms

\* the add_doc calls whose document contains term
AddedWith(term) == {i \in 1..Len(added) : term \in DOMAIN objs[added[i].obj].terms}

\* C6: after add_doc calls with documents d1..dn that were complete when
\* added, term_doc_count[t] is the number of di with t in di.terms, whatever
\* the count of t inside each di, and a term of no added document is no key.
C6_DocCountIsDocuments ==
    AddedComplete =>
        \A term \in Terms :
            IF AddedWith(term) = {} THEN term \notin DOMAIN term_doc_count
            ELSE /\ term \in DOMAIN term_doc_count
                 /\ term_doc_count[term] = Cardinality(AddedWith(term))

C6_Witness ==
    /\ AddedComplete
    /\ \E term \in Terms :
         /\ Cardinality(AddedWith(term)) = 2
         /\ term_doc_count[term] = 2
         /\ \E i \in AddedWith(term) : objs[added[i].obj].terms[term] >= 2
    /\ \E term \in Terms : AddedWith(term) = {}

\* C7: after add_term calls of which k succeeded, a document's doc_len is k
\* and is the sum of the values of terms, each a positive integer.
C7_DocLenIsCalls ==
    \A o \in 1..Len(objs) :
        /\ objs[o].doc_len = add_term_ok[o]
        /\ objs[o].doc_len = SumValues(objs[o].terms)
        /\ \A term \in DOMAIN objs[o].terms : objs[o].terms[term] \in Nat \ {0}

C7_Witness ==
    \E o \in 1..Len(objs) :
        /\ add_term_ok[o] = 3
        /\ objs[o].terms = Doc1Terms

C9_RankingIsReadOnly ==
    [][(Idle /\ result'.op \in RankOps) =>
           /\ UNCHANGED <<objs, docs, term_doc_count, term_frequency>>
           /\ IF result'.op = "w5" THEN UNCHANGED query
              ELSE query' = result'.args.query]_vars

C9_Witness ==
    /\ result.op = "My_PRM"
    /\ result.status = "ok"
    /\ Len(docs) = 2
    /\ query = result.args.query
    /\ term_frequency # EmptyDict

\* C10: on a collection with no documents each of BM25, JM_LM,
\* vector_space_model, w5, term_specificity and My_PRM (over any of the three
\* models) raises AttributeError and returns no score mapping.
C10_EmptyCollectionRaises ==
    (Len(docs) = 0 /\ result.op \in RankOps) =>
        /\ result.status = "AttributeError"
        /\ "value" \notin DOMAIN result

C10_Witness ==
    /\ Len(docs) = 0
    /\ result.op = "term_specificity"
    /\ result.status = "AttributeError"
    /\ result.args.theta_1 = result.args.theta_2

\* the items of the argument of a score_normalisation call, and their values
ArgItems == result.args.scores.items
ArgValues == {ArgItems[i].value : i \in 1..Len(ArgItems)}
ArgMin == CHOOSE v \in ArgValues : \A w \in ArgValues : ~RLess(w, v)
ArgMax == CHOOSE v \in ArgValues : \A w \in ArgValues : ~RLess(v, w)

\* a direct call of score_normalisation with a non-empty mapping of string
\* keys to numbers has returned
NormalisationReturned ==
    /\ result.op = "score_normalisation"
    /\ ScoresWellTyped(result.args.scores)
    /\ Len(ArgItems) > 0

\* C11: score_normalisation of a non-empty mapping returns a mapping with
\* exactly the input's keys; if the values are not all equal each output is
\* (score - min) / (max - min), the least output is 0 and the greatest is 1;
\* if they are all equal every output is 0.
C11_MinMaxNormalisation ==
    NormalisationReturned =>
        /\ result.status = "ok"
        /\ Keys(result.value) = [i \in 1..Len(ArgItems) |-> ArgItems[i].key]
        /\ IF Cardinality(ArgValues) = 1
           THEN \A i \in 1..Len(result.value) : result.value[i][2] = Zero
           ELSE /\ \A i \in 1..Len(ArgItems) :
                     Lookup(result.value, ArgItems[i].key) =
                         RDiv(RSub(ArgItems[i].value, ArgMin), RSub(ArgMax, ArgMin))
                /\ \E i \in 1..Len(result.value) : result.value[i][2] = Zero
                /\ \E i \in 1..Len(result.value) : result.value[i][2] = One
                /\ \A i \in 1..Len(result.value) :
                     /\ ~RLess(result.value[i][2], Zero)
                     /\ ~RLess(One, result.value[i][2])

C11_Witness ==
    /\ NormalisationReturned
    /\ result.status = "ok"
    /\ Cardinality(ArgValues) = 3
    /\ Values(result.value) = <<One, Zero, <<1, 2>>, One>>

\* the functions that return a ranking of the documents
RankingOps == {"BM25", "JM_LM", "vector_space_model", "My_PRM"}

\* the place of a document id in the insertion order of collection.docs
Position(doc_id) == CHOOSE i \in 1..Len(docs) : docs[i][1] = doc_id

\* C12: the mapping BM25, JM_LM, vector_space_model and My_PRM return
\* iterates in non-increasing score order, and documents of equal score come
\* in the order in which they were inserted into the collection.
C12_SortedStable ==
    (result.op \in RankingOps /\ result.status = "ok") =>
        \A i, j \in 1..Len(result.value) :
            i < j =>
                /\ ~RLess(result.value[i][2], result.value[j][2])
                /\ result.value[i][2] = result.value[j][2] =>
                       Position(result.value[i][1]) < Position(result.value[j][1])

C12_Witness ==
    /\ result.op = "My_PRM"
    /\ result.status = "ok"
    /\ Keys(docs) = <<"2", "1">>
    /\ Keys(result.value) = <<"2", "1">>
    /\ result.value[1][2] = result.value[2][2]

\* the specificity term_specificity computes for a query term of the call
\* that has returned
SpecificityOf(query_term) ==
    Specificity(collection, query_term,
                {d \in DOMAIN result.args.evaluations : result.args.evaluations[d] = 1},
                {d \in DOMAIN result.args.evaluations : result.args.evaluations[d] = 0})

\* C13: every query term whose specificity s satisfies theta_1 < s < theta_2
\* gets its query frequency as its weight; so does, with theta_1 = -1 and
\* theta_2 = 1, a term of specificity 0.
C13_GeneralTermUnchanged ==
    (result.op = "term_specificity" /\ result.status = "ok") =>
        \A i \in 1..Len(result.args.query) :
            LET query_term == result.args.query[i][1]
                s == SpecificityOf(query_term)
            IN (RLess(result.args.theta_1, s) /\ RLess(s, result.args.theta_2)) =>
                   /\ query_term \in KeySet(result.value)
                   /\ Lookup(result.value, query_term) = RInt(result.args.query[i][2])

C13_Witness ==
    /\ result.op = "term_specificity"
    /\ result.status = "ok"
    /\ result.args.theta_1 = RInt(-1) /\ result.args.theta_2 = One
    /\ DocsWith(collection, "cat") # {}
    /\ SpecificityOf("cat") = Zero
    /\ Lookup(result.value, "cat") = One

\* a w5 call on a non-empty collection has returned or raised
W5Called == result.op = "w5" /\ Len(docs) > 0

\* the relevance mapping of the w5 call labels every document, and labels 0 only
AllLabelledZero ==
    /\ KeySet(docs) \subseteq DOMAIN result.args.evaluations
    /\ \A d \in DOMAIN result.args.evaluations : result.args.evaluations[d] = 0

\* the term is in a document of the collection that the mapping labels 1
InRelevantDocument(term) ==
    \E j \in 1..Len(collection.docs) :
        /\ term \in DOMAIN collection.docs[j][2].terms
        /\ collection.docs[j][1] \in DOMAIN result.args.evaluations
        /\ result.args.evaluations[collection.docs[j][1]] = 1

\* C14: w5 on a non-empty collection with a relevance mapping that labels
\* every document 0 raises no error and returns an empty selection; and for
\* any relevance mapping no term w5 returns is a term that occurs in no
\* document labelled 1.
C14_NoRelevantNoSelection ==
    W5Called =>
        /\ AllLabelledZero => (result.status = "ok" /\ result.value = EmptyDict)
        /\ result.status = "ok" => \A term \in DOMAIN result.value : InRelevantDocument(term)

C14_Witness ==
    /\ W5Called
    /\ AllLabelledZero
    /\ Len(docs) = 2
    /\ \A j \in 1..2 : DOMAIN collection.docs[j][2].terms # {}
    /\ result.status = "ok"

\* rc, n, R and N of the w5 call that has returned: the documents labelled 1
\* that contain the term, the documents that contain it, the entries
\* labelled 1 and the documents
W5rc(term) ==
    Cardinality({j \in 1..Len(collection.docs) :
                    /\ term \in DOMAIN collection.docs[j][2].terms
                    /\ collection.docs[j][1] \in DOMAIN result.args.evaluations
                    /\ result.args.evaluations[collection.docs[j][1]] = 1})
W5n(term) ==
    Cardinality({j \in 1..Len(collection.docs) : term \in DOMAIN collection.docs[j][2].terms})
W5R == Cardinality({d \in DOMAIN result.args.evaluations : result.args.evaluations[d] = 1})
W5N == Len(collection.docs)

\* ((rc+0.5)/(R-rc+0.5)) / ((n-rc+0.5)/(N-n-R+rc+0.5))
W5Score(term) ==
    RDiv(RDiv(Rat(2 * W5rc(term) + 1, 2), Rat(2 * (W5R - W5rc(term)) + 1, 2)),
         RDiv(Rat(2 * (W5n(term) - W5rc(term)) + 1, 2),
              Rat(2 * (W5N - W5n(term) - W5R + W5rc(term)) + 1, 2)))

\* the terms with at least one occurrence in a document labelled 1, and the
\* average of their scores
W5Scored == {term \in Terms : W5rc(term) >= 1}
W5Mean ==
    IF W5Scored = {} THEN Zero
    ELSE RDiv(RSumOver([term \in W5Scored |-> W5Score(term)], W5Scored),
              RInt(Cardinality(W5Scored)))

\* C15: w5 returns exactly the terms with rc >= 1 whose score is strictly
\* greater than mean + theta, the mean being taken over the terms with
\* rc >= 1, and maps each returned term to its score.
C15_W5Selection ==
    (W5Called /\ result.status = "ok") =>
        /\ DOMAIN result.value =
              {term \in W5Scored : RLess(RAdd(W5Mean, result.args.theta), W5Score(term))}
        /\ \A term \in DOMAIN result.value : result.value[term] = W5Score(term)

C15_Witness ==
    /\ W5Called
    /\ result.status = "ok"
    /\ DOMAIN result.value # {}
    /\ W5Scored \ DOMAIN result.value # {}

\* a My_PRM call has returned a mapping
PRMReturned == result.op = "My_PRM" /\ result.status = "ok"

\* the pseudo-relevance labels for the base model's scores: 1 if the score
\* is strictly greater than threshold (for a cosine, kept as c * |c|, than
\* threshold * |threshold|)
PseudoLabels(base_scores) ==
    LET limit == IF result.args.weighting_function = "vector_space_model"
                 THEN RMul(result.args.threshold, RAbs(result.args.threshold))
                 ELSE result.args.threshold
    IN [doc_id \in KeySet(docs) |->
          IF RLess(limit, Lookup(base_scores, doc_id)) THEN 1 ELSE 0]

\* the sum over each document's terms of frequency * selected weight
FeatureSums(selected) ==
    [j \in 1..Len(collection.docs) |->
       LET terms == collection.docs[j][2].terms
       IN RSumOver([term \in DOMAIN terms |->
                      IF term \in DOMAIN selected
                      THEN RMul(RInt(terms[term]), selected[term])
                      ELSE Zero],
                   DOMAIN terms)]

\* the min-max normalisation of the sums
MinMax(sums) ==
    LET range == {sums[j] : j \in DOMAIN sums}
        least == CHOOSE v \in range : \A w \in range : ~RLess(w, v)
        most == CHOOSE v \in range : \A w \in range : ~RLess(v, w)
    IN [j \in DOMAIN sums |->
          IF least = most THEN Zero
          ELSE RDiv(RSub(sums[j], least), RSub(most, least))]

\* C16: My_PRM labels every document 1 if its base-model score is strictly
\* greater than threshold and 0 otherwise, runs w5 on those labels with the
\* given theta, sums frequency * selected weight over each document's own
\* terms (0 for a term not selected) and returns the min-max normalisation
\* of the sums.
C16_PRMRescoring ==
    PRMReturned =>
        LET base == Apply(result.args.weighting_function, collection, result.args.query)
            labels == PseudoLabels(base.value)
            selected == w5(collection, labels, result.args.theta)
            normalised == MinMax(FeatureSums(selected.value))
        IN /\ KeySet(result.value) = KeySet(docs)
           /\ \A j \in 1..Len(collection.docs) :
                Lookup(result.value, collection.docs[j][1]) = normalised[j]

C16_Witness ==
    /\ PRMReturned
    /\ Len(docs) = 2
    /\ LET base == Apply(result.args.weighting_function, collection, result.args.query)
           labels == PseudoLabels(base.value)
           selected == w5(collection, labels, result.args.theta)
       IN /\ {labels[d] : d \in KeySet(docs)} = {0, 1}
          /\ DOMAIN selected.value # {}
          /\ \E j \in 1..2 : DOMAIN collection.docs[j][2].terms \ DOMAIN selected.value # {}
    /\ {result.value[j][2] : j \in 1..2} = {Zero, One}

\* C17: score_normalisation raises an error and returns no mapping when its
\* argument is not a dict of str keys and int or float values (TypeError,
\* line 114) and when it is an empty dict (ValueError, min() at line 117).
C17_NormalisationRejects ==
    result.op = "score_normalisation" =>
        /\ ~ScoresWellTyped(result.args.scores) =>
               (result.status = "TypeError" /\ "value" \notin DOMAIN result)
        /\ (ScoresWellTyped(result.args.scores) /\ Len(result.args.scores.items) = 0) =>
               (result.status = "ValueError" /\ "value" \notin DOMAIN result)

C17_Witness ==
    /\ result.op = "score_normalisation"
    /\ result.args.scores = PyDict(<< >>)
    /\ result.status = "ValueError"
    /\ "value" \notin DOMAIN result

\* the step is an add_doc call, and the document it adds
IsAddDoc == Len(added') = Len(added) + 1
AddedObj == added'[Len(added')].obj

IsSetDocLen == Idle /\ result'.op = "doc_len"
SetObj == result'.args.obj
SetArg == result'.args.value

\* C19 as stated: assigning a negative or non-integer value to doc_len
\* raises an error and leaves the length unchanged, and no assignment to
\* doc_len makes doc_len differ from the sum of the term counts.
C19_LengthStaysDerived ==
    [][IsSetDocLen =>
           /\ (SetArg.type # "int" \/ SetArg.value[1] < 0) =>
                  (result'.status # "ok" /\ objs' = objs)
           /\ objs'[SetObj].doc_len = SumValues(objs'[SetObj].terms)]_vars

\* C19 as amended: assigning a non-int value to doc_len raises TypeError and
\* assigning a negative int ValueError, and both leave the document
\* unchanged; assigning an int >= 0 succeeds and stores that value whatever
\* the terms are, so doc_len can differ from the sum of the term counts.
C19_SetterChecksSignOnly ==
    [][IsSetDocLen =>
           IF SetArg.type = "int" /\ SetArg.value[1] >= 0
           THEN /\ result'.status = "ok"
                /\ objs'[SetObj].doc_len = SetArg.value[1]
                /\ objs'[SetObj].terms = objs[SetObj].terms
                /\ \A o \in 1..Len(objs) : o # SetObj => objs'[o] = objs[o]
           ELSE /\ result'.status = IF SetArg.type # "int" THEN "TypeError" ELSE "ValueError"
                /\ objs' = objs]_vars

C19_Witness ==
    /\ result.op = "doc_len"
    /\ result.status = "ok"
    /\ objs[result.args.obj].doc_len = 2
    /\ SumValues(objs[result.args.obj].terms) = 1
    /\ result.args.obj \in {docs[i][2] : i \in 1..Len(docs)}

\* the relevance mapping of the term_specificity call has no entry labelled
\* 1 or no entry labelled 0
LabelMissing ==
    \/ \A d \in DOMAIN result.args.evaluations : result.args.evaluations[d] # 1
    \/ \A d \in DOMAIN result.args.evaluations : result.args.evaluations[d] # 0

\* theta_2 is not strictly greater than theta_1
ThetasOutOfOrder == ~RLess(result.args.theta_1, result.args.theta_2)

\* C20: term_specificity raises an error and returns no reweighted query
\* when theta_2 is not strictly greater than theta_1 (ValueError) and when
\* the relevance mapping has no entry labelled 1 or none labelled 0
\* (AttributeError); the error is that of the check, never one of the
\* specificity computation (a division by D = 0).
C20_SpecificityRejects ==
    (result.op = "term_specificity" /\ (ThetasOutOfOrder \/ LabelMissing)) =>
        /\ "value" \notin DOMAIN result
        /\ result.status =
              IF Len(docs) = 0 THEN "AttributeError"
              ELSE IF ThetasOutOfOrder THEN "ValueError"
              ELSE "AttributeError"

C20_Witness ==
    /\ result.op = "term_specificity"
    /\ Len(docs) = 2
    /\ ~ThetasOutOfOrder
    /\ \A d \in DOMAIN result.args.evaluations : result.args.evaluations[d] = 0
    /\ DocsWith(collection, "cat") # {}
    /\ result.status = "AttributeError"

\* a call of the normaliser under the z-score policy has returned a mapping
ZScoreReturned ==
    /\ result.op = "score_normalizer"
    /\ result.args.policy = "z-score"
    /\ result.status = "ok"

CoverageOf(query_term, label) ==
    LET labelled == {j \in 1..Len(collection.docs) :
                        /\ collection.docs[j][1] \in DOMAIN result.args.evaluations
                        /\ result.args.evaluations[collection.docs[j][1]] = label}
    IN SumOver([j \in 1..Len(collection.docs) |->
                  IF query_term \in DOMAIN collection.docs[j][2].terms
                  THEN collection.docs[j][2].terms[query_term] ELSE 0],
               labelled)

\* s = (coverage in documents labelled 1 - coverage in documents labelled 0)
\*     / number of entries labelled 1
ClaimedSpecificity(query_term) ==
    Rat(CoverageOf(query_term, 1) - CoverageOf(query_term, 0),
        Cardinality({d \in DOMAIN result.args.evaluations :
                        result.args.evaluations[d] = 1}))

\* the weight of a term of frequency f and specificity s
ClaimedWeight(f, s, theta_1, theta_2) ==
    IF ~RLess(s, theta_2) THEN RAdd(f, RMul(f, s))
    ELSE IF RLess(theta_1, s) THEN f
    ELSE RSub(f, RAbs(RMul(f, s)))

\* C22: for theta_1 < theta_2 term_specificity returns exactly the query's
\* terms, each in exactly one of the classes positive (s >= theta_2), general
\* (theta_1 < s < theta_2) and negative (s <= theta_1), with the weight
\* f + f*s, f and f - |f*s| of its class.
C22_SpecificityReweighting ==
    (result.op = "term_specificity" /\ result.status = "ok") =>
        /\ Keys(result.value) = Keys(result.args.query)
        /\ \A i \in 1..Len(result.args.query) :
             LET s == ClaimedSpecificity(result.args.query[i][1])
                 positive == ~RLess(s, result.args.theta_2)
                 general == RLess(result.args.theta_1, s) /\ RLess(s, result.args.theta_2)
                 negative == ~RLess(result.args.theta_1, s)
             IN /\ Cardinality({c \in {1, 2, 3} :
                                  \/ c = 1 /\ positive
                                  \/ c = 2 /\ general
                                  \/ c = 3 /\ negative}) = 1
                /\ result.value[i][2] =
                      ClaimedWeight(RInt(result.args.query[i][2]), s,
                                    result.args.theta_1, result.args.theta_2)

C22_Witness ==
    /\ result.op = "term_specificity"
    /\ result.status = "ok"
    /\ Len(result.args.query) = 2
    /\ result.args.theta_2 = One
    /\ ClaimedSpecificity("cat") = RInt(-2)
    /\ Lookup(result.value, "cat") = RInt(-1)
    /\ Lookup(result.value, "emu") = One

\* the index has every key it had, with a count that is not lower
IndexGrows(index, index_after) ==
    \A term \in DOMAIN index :
        term \in DOMAIN index_after /\ index_after[term] >= index[term]

\* the index after an add_doc of a document with these terms: 1 more for
\* each of its distinct terms, every other count as it was
IndexPlusOne(index, index_after, terms) ==
    /\ DOMAIN index_after = DOMAIN index \cup DOMAIN terms
    /\ \A term \in DOMAIN index_after :
         index_after[term] = IF term \in DOMAIN terms THEN Get(index, term, 0) + 1
                             ELSE index[term]

IsRejectedAddTerm == Idle /\ result'.op = "add_term" /\ result'.status = "TypeError"
IsRejectedAddDoc == Idle /\ result'.op = "add_doc" /\ result'.status = "TypeError"

\* C24: add_term with a term that is not a string raises TypeError and leaves
\* the document's terms and doc_len as they were; add_doc with an argument
\* that is not a bow_document raises TypeError and leaves docs,
\* term_doc_count and term_frequency as they were.
C24_RejectedMutationChangesNothing ==
    [][/\ \A o \in 1..Len(objs), arg \in TermArgs :
            (CallAddTerm(o, arg) /\ arg.type # "str") =>
                /\ result'.status = "TypeError"
                /\ objs'[o].terms = objs[o].terms
                /\ objs'[o].doc_len = objs[o].doc_len
       /\ IsRejectedAddTerm => UNCHANGED <<objs, docs, term_doc_count, term_frequency>>
       /\ \A arg \in DocArgs :
            (CallAddDoc(arg) /\ arg.type # "bow_document") =>
                /\ result'.status = "TypeError"
                /\ UNCHANGED <<docs, term_doc_count, term_frequency>>
       /\ IsRejectedAddDoc => UNCHANGED <<objs, docs, term_doc_count, term_frequency>>]_vars

\* both calls were rejected on a collection that holds a document with terms
C24_Witness ==
    /\ result.op \in {"add_term", "add_doc"}
    /\ result.status = "TypeError"
    /\ Len(docs) = 1
    /\ objs[1].terms = [term \in {"cat"} |-> 2]
    /\ term_doc_count = [term \in {"cat"} |-> 1]

\* C25 as stated: on every collection with at least one document, built by
\* any add_term and add_doc calls (documents of length 0 and ids added twice
\* included), and every query with positive frequencies, BM25 raises no
\* ZeroDivisionError and no ValueError from log10 and returns a score
\* mapping.
C25_BM25NoArithmeticError ==
    (result.op = "BM25" /\ Len(docs) >= 1) =>
        /\ result.status \notin {"ZeroDivisionError", "ValueError"}
        /\ result.status = "ok"

\* C26 as stated: on a non-empty collection and a relevance mapping that
\* labels every document 0 or 1, w5 raises no ZeroDivisionError, also when a
\* document is labelled 1 and every document labelled 1 is empty; and a
\* My_PRM call with BM25 as base model, whose BM25 step returns, raises no
\* ZeroDivisionError.
C26_W5NoDivisionByZero ==
    /\ (W5Called /\ KeySet(docs) \subseteq DOMAIN result.args.evaluations) =>
           result.status # "ZeroDivisionError"
    /\ (/\ result.op = "My_PRM"
        /\ result.args.weighting_function = "BM25"
        /\ Len(docs) > 0
        /\ BM25(collection, result.args.query).status = "ok") =>
           result.status # "ZeroDivisionError"

\* the stored documents whose terms contain the term
StoredDocsWith(term) ==
    {j \in 1..Len(docs) : term \in DOMAIN objs[docs[j][2]].terms}

\* C27 as stated: in every state reached by any interleaving of add_term and
\* add_doc calls, add_term on a stored document included, every term of every
\* stored document is a key of term_doc_count, and term_doc_count[t] is the
\* number of stored documents whose terms contain t.
C27_DocCountMatchesStored ==
    /\ \A j \in 1..Len(docs) :
         DOMAIN objs[docs[j][2]].terms \subseteq DOMAIN term_doc_count
    /\ \A term \in DOMAIN term_doc_count :
         term_doc_count[term] = Cardinality(StoredDocsWith(term))

\* C28: on a non-empty collection, whenever BM25, JM_LM, vector_space_model
\* or My_PRM returns, the keys of the returned mapping are exactly the
\* document ids of the collection, one score per document, also when the
\* query is empty or shares no term with the collection.
C28_OneScorePerDocument ==
    (result.op \in RankingOps /\ result.status = "ok" /\ Len(docs) > 0) =>
        /\ KeySet(result.value) = KeySet(docs)
        /\ Len(result.value) = Len(docs)

\* BM25 returned for a query term that no document of a two-document
\* collection contains
C28_Witness ==
    /\ result.op = "BM25"
    /\ result.status = "ok"
    /\ Len(docs) = 2
    /\ result.args.query = << <<"dog", 1>> >>
    /\ "dog" \notin DOMAIN term_doc_count

\* the My_PRM call returned a score of 0 for every document
PRMAllZero ==
    /\ result.status = "ok"
    /\ KeySet(result.value) = KeySet(docs)
    /\ \A j \in 1..Len(result.value) : result.value[j][2] = Zero

\* C29: when the base model returns scores and none of them is strictly
\* greater than threshold, My_PRM returns score 0 for every document; the
\* scores BM25 returns never exceed 1, so My_PRM with BM25 as base model and
\* a threshold >= 1 returns all zeros.
C29_NothingAboveThresholdAllZero ==
    result.op = "My_PRM" =>
        LET base == Apply(result.args.weighting_function, collection, result.args.query)
        IN base.status = "ok" =>
             LET labels == PseudoLabels(base.value)
             IN /\ (\A d \in KeySet(docs) : labels[d] = 0) => PRMAllZero
                /\ result.args.weighting_function = "BM25" =>
                     /\ \A j \in 1..Len(base.value) : ~RLess(One, base.value[j][2])
                     /\ ~RLess(result.args.threshold, One) => PRMAllZero

\* My_PRM with BM25 and threshold 1 returned for a collection in which a
\* document's BM25 score is exactly 1
C29_Witness ==
    /\ result.op = "My_PRM"
    /\ result.args.weighting_function = "BM25"
    /\ result.args.threshold = One
    /\ Len(docs) = 2
    /\ PRMAllZero
    /\ LET base == BM25(collection, result.args.query)
       IN \E j \in 1..Len(base.value) : base.value[j][2] = One

====
